---- MODULE Spec2Model ----
(***************************************************************************)
(* The profitability pipeline of app.py: one run of the script is          *)
(*   load_data -> factory mapping -> sidebar filters -> (no data | the     *)
(*   aggregation block) -> the selected page,                              *)
(* and a widget change re-runs the script with load_data served from the   *)
(* st.cache_data cache.                                                    *)
(*                                                                         *)
(* Numbers are exact: a ratio is kept as the pair <<numerator,             *)
(* denominator>> and compared by cross multiplication, so the model does   *)
(* not show IEEE rounding.  A pandas NaN in a raw cell is the column name  *)
(* in the row's na set; a NaN result is a ratio with denominator 0 or the  *)
(* record NaN.  The Margin Volatility column of division_contrib (a        *)
(* standard deviation) is not modelled.                                    *)
(***************************************************************************)
EXTENDS Integers, Sequences, FiniteSets, TLC

VARIABLES
    pc,                 \* position of the script run
    csv,                \* rows of "Nassau Candy Distributor (1).csv"
    cache,              \* st.cache_data entry of load_data: <<>> or <<df>>
    df,                 \* module-level df
    filtered_df,
    product_perf,
    total_sales,
    total_profit,
    division_contrib,
    revenue_pareto,
    profit_pareto,
    revenue_80_count,
    profit_80_count,
    dependency_risk,
    factory_perf,
    page,               \* the sidebar radio's module
    view                \* what the selected page computed and displayed

vars == <<pc, csv, cache, df, filtered_df, product_perf, total_sales,
          total_profit, division_contrib, revenue_pareto, profit_pareto,
          revenue_80_count, profit_80_count, dependency_risk, factory_perf,
          page, view>>

----------------------------------------------------------------------------
(* Bounds of the input tables *)

MaxRows == 2        \* rows of a ledger table
MaxOrders == 2      \* distinct Order IDs
MaxSales == 2       \* largest Sales amount of a row
OutlierLen == 11    \* rows of an outlier table

----------------------------------------------------------------------------
(* Arithmetic helpers *)

RECURSIVE SumSeq(_)
SumSeq(s) == IF s = <<>> THEN 0 ELSE Head(s) + SumSeq(Tail(s))

RECURSIVE ProdSeq(_)
ProdSeq(s) == IF s = <<>> THEN 1 ELSE Head(s) * ProdSeq(Tail(s))

RECURSIVE Gcd(_, _)
Gcd(a, b) == IF b = 0 THEN a ELSE Gcd(b, a % b)

Lcm(a, b) == (a * b) \div Gcd(a, b)

RECURSIVE LcmSeq(_)
LcmSeq(s) == IF s = <<>> THEN 1 ELSE Lcm(Head(s), LcmSeq(Tail(s)))

(* a column of a frame, as a sequence and as its set of values *)
ColumnSeq(t, f) == [i \in 1..Len(t) |-> t[i][f]]

ColumnSet(t, f) == {t[i][f] : i \in 1..Len(t)}

(* A float result n/d.  d = 0 is numpy's division by zero: 0/0 is NaN,     *)
(* x/0 is +-inf.                                                           *)
Ratio(n, d) == <<n, d>>

IsNaNRatio(r) == r[2] = 0 /\ r[1] = 0

(* r >= k for a ratio r and an integer k; False for NaN as in IEEE. *)
RatioGE(r, k) ==
    IF r[2] = 0 THEN r[1] > 0
    ELSE IF r[2] > 0 THEN r[1] >= k * r[2]
    ELSE r[1] <= k * r[2]

(* a < b and a = b for ratios with positive denominators *)
RatioLT(a, b) == a[1] * b[2] < b[1] * a[2]

RatioEQ(a, b) == a[1] * b[2] = b[1] * a[2]

(* a float that may be NaN, where the script uses it as a number *)
NaN == [nan |-> TRUE, val |-> 0]

Num(n) == [nan |-> FALSE, val |-> n]

----------------------------------------------------------------------------
(* FACTORY MAPPING *)

factory_map ==
    [n \in {"Wonka Bar - Nutty Crunch Surprise", "Wonka Bar - Fudge Mallows",
            "Wonka Bar -Scrumdiddlyumptious", "Wonka Bar - Milk Chocolate",
            "Wonka Bar - Triple Dazzle Caramel", "Laffy Taffy", "SweeTARTS",
            "Nerds", "Fun Dip", "Fizzy Lifting Drinks",
            "Everlasting Gobstopper", "Hair Toffee", "Lickable Wallpaper",
            "Wonka Gum", "Kazookles"} |->
        CASE n \in {"Wonka Bar - Nutty Crunch Surprise",
                    "Wonka Bar - Fudge Mallows",
                    "Wonka Bar -Scrumdiddlyumptious"} -> "Lot's O' Nuts"
          [] n \in {"Wonka Bar - Milk Chocolate",
                    "Wonka Bar - Triple Dazzle Caramel"} -> "Wicked Choccy's"
          [] n \in {"Laffy Taffy", "SweeTARTS", "Nerds", "Fun Dip",
                    "Fizzy Lifting Drinks"} -> "Sugar Shack"
          [] n \in {"Everlasting Gobstopper", "Lickable Wallpaper",
                    "Wonka Gum"} -> "Secret Factory"
          [] OTHER -> "The Other Factory"]

factory_coords ==
    [f \in {"Lot's O' Nuts", "Wicked Choccy's", "Sugar Shack",
            "Secret Factory", "The Other Factory"} |->
        CASE f = "Lot's O' Nuts" -> <<32881893, -111768036>>
          [] f = "Wicked Choccy's" -> <<32076176, -81088371>>
          [] f = "Sugar Shack" -> <<48119140, -96181150>>
          [] f = "Secret Factory" -> <<41446333, -90565487>>
          [] OTHER -> <<35117500, -89971107>>]

(* the NaN that Series.map leaves for a key the dict does not hold *)
NoFactory == "NaN"

MapFactoryValue(name) ==
    IF name \in DOMAIN factory_map THEN factory_map[name] ELSE NoFactory

----------------------------------------------------------------------------
(* The input tables *)

(* The products that occur in the modelled csv files: Product ID, the raw  *)
(* Product Name and Division cells (product 2 carries surrounding          *)
(* whitespace), product 4 is no key of factory_map.                        *)
Catalog ==
    <<[pid |-> 1, name |-> "Laffy Taffy", div |-> "Sugar"],
      [pid |-> 2, name |-> " Nerds", div |-> "Sugar "],
      [pid |-> 3, name |-> "Wonka Gum", div |-> "Chocolate"],
      [pid |-> 4, name |-> "Candy X", div |-> "Other"]>>

Products == 1..Len(Catalog)

Orders == 1..MaxOrders

(* date cells as written in the file: <<year, month, day>> *)
OrderDateText(o) == <<2024, ((o - 1) % 12) + 1, 5>>

ShipDateText(o) == <<2024, ((o - 1) % 12) + 1, 6>>

EarlyShipDateText(o) == <<2024, ((o - 1) % 12) + 1, 4>>

BadDateText == <<2024, 13, 5>>

Row(o, p, sales, units, gp, cost, od, sd, na) ==
    [OrderID |-> o, ProductID |-> Catalog[p].pid,
     Division |-> Catalog[p].div, ProductName |-> Catalog[p].name,
     OrderDate |-> od, ShipDate |-> sd,
     Sales |-> sales, Units |-> units, GrossProfit |-> gp, Cost |-> cost,
     na |-> na]

(* Sales and Gross Profit of a well-formed row *)
SalesProfit == {<<s, g>> \in (1..MaxSales) \X (0..MaxSales) : g <= s}

(* rows that pass every filter of load_data: of a mapped and of an         *)
(* unmapped product, with a full and with a zero margin, and one of        *)
(* product 1 whose reported Gross Profit differs from Sales - Cost         *)
CleanRows ==
    {Row(o, p, sg[1], 1, sg[2], sg[1] - sg[2],
         OrderDateText(o), ShipDateText(o), {}) :
        o \in Orders, p \in {1, 4}, sg \in {<<1, 1>>, <<MaxSales, 0>>}}
    \cup
    {Row(o, 1, 1, 1, 1, 1, OrderDateText(o), ShipDateText(o), {}) :
        o \in Orders}

Defects == {"zero_sales", "na_sales", "zero_units", "na_profit", "na_cost",
            "negative_profit", "early_ship", "bad_order_date"}

(* rows of product 1 with one defect each, all with a profit mismatch *)
DefectRow(o, d) ==
    Row(o, 1,
        IF d \in {"zero_sales", "na_sales"} THEN 0 ELSE 1,
        IF d = "zero_units" THEN 0 ELSE 1,
        IF d = "negative_profit" THEN 0 - 1 ELSE IF d = "na_profit" THEN 0 ELSE 1,
        1,
        IF d = "bad_order_date" THEN BadDateText ELSE OrderDateText(o),
        IF d = "early_ship" THEN EarlyShipDateText(o) ELSE ShipDateText(o),
        CASE d = "na_sales" -> {"Sales"}
          [] d = "na_profit" -> {"Gross Profit"}
          [] d = "na_cost" -> {"Cost"}
          [] OTHER -> {})

DefectRows == {DefectRow(1, d) : d \in Defects}

RawRows == CleanRows \cup DefectRows

(* ledger tables: any rows in any order, duplicates of an (Order ID,       *)
(* Product ID) pair included                                               *)
LedgerTables == UNION {[1..n -> RawRows] : n \in 0..MaxRows}

(* portfolio tables: one order with a row for each mapped product *)
PortfolioTables ==
    {[p \in 1..3 |-> Row(1, p, f[p][1], 1, f[p][2], f[p][1] - f[p][2],
                         OrderDateText(1), ShipDateText(1), {})] :
        f \in [1..3 -> SalesProfit]}

(* outlier tables: OutlierLen orders of product 1 with Sales 1 and Cost 1, *)
(* the first k with Gross Profit 1 (a profit mismatch) and the others with *)
(* Gross Profit 0                                                          *)
OutlierTables ==
    {[i \in 1..OutlierLen |->
        Row(i, 1, 1, 1, IF i <= k THEN 1 ELSE 0, 1,
            OrderDateText(1), ShipDateText(1), {})] : k \in 0..OutlierLen}

InputTables == LedgerTables \cup PortfolioTables \cup OutlierTables

----------------------------------------------------------------------------
(* LOAD DATA *)

(* df.drop_duplicates(subset=["Order ID", "Product ID"]): keep="first" *)
DropDuplicates(t) ==
    LET keep(i) == \A j \in 1..(i - 1) :
                      ~(t[j].OrderID = t[i].OrderID /\ t[j].ProductID = t[i].ProductID)
        RECURSIVE Build(_)
        Build(i) == IF i = 0 THEN <<>>
                    ELSE IF keep(i) THEN Append(Build(i - 1), t[i])
                    ELSE Build(i - 1)
    IN Build(Len(t))

(* a comparison with NaN is False *)
PositiveSalesUnits(r) ==
    /\ "Sales" \notin r.na /\ r.Sales > 0
    /\ "Units" \notin r.na /\ r.Units > 0

NoMissing(r) == r.na \cap {"Sales", "Units", "Gross Profit", "Cost"} = {}

(* str.strip() on the cells of the modelled files *)
Strip(s) == CASE s = " Nerds" -> "Nerds"
              [] s = "Sugar " -> "Sugar"
              [] OTHER -> s

NaT == <<>>

(* pd.to_datetime(errors="coerce"): a text that is no calendar date is NaT *)
ToDatetime(c) ==
    IF Len(c) = 3 /\ c[2] \in 1..12 /\ c[3] \in 1..31 THEN c ELSE NaT

(* a >= b on timestamps; False when either is NaT *)
DateGE(a, b) ==
    /\ a # NaT /\ b # NaT
    /\ \/ a[1] > b[1]
       \/ a[1] = b[1] /\ a[2] > b[2]
       \/ a[1] = b[1] /\ a[2] = b[2] /\ a[3] >= b[3]

(* the line 76 filter also dropping the rows with a Profit Mismatch *)
NonNegativeProfit_DropsMismatch(r) ==
    r.GrossProfit >= 0 /\ r.GrossProfit = r.Sales - r.Cost

NonNegativeProfit(r) == r.GrossProfit >= 0

ShipAfterOrder(r) == DateGE(r.ShipDate, r.OrderDate)

(* np.abs(stats.zscore(x)) > 3 for row i of t, x = Gross Margin %:         *)
(* |x_i - mean| > 3 * std (ddof = 0), squared and scaled by the common     *)
(* denominator; std = 0 gives NaN, which is not > 3                        *)
ZThreshold == 3

MarginOutlier(t, i) ==
    LET n == Len(t)
        L == LcmSeq([k \in 1..n |-> t[k].Sales])
        x == [k \in 1..n |-> t[k].GrossProfit * (L \div t[k].Sales)]
        S == SumSeq(x)
        Q == SumSeq([k \in 1..n |-> x[k] * x[k]])
        var == n * Q - S * S
    IN var > 0 /\ (n * x[i] - S) * (n * x[i] - S) > ZThreshold * ZThreshold * var

load_data(t) ==
    LET d1 == DropDuplicates(t)
        d2 == SelectSeq(d1, PositiveSalesUnits)
        d3 == SelectSeq(d2, NoMissing)
        Typed(r) == [r EXCEPT !.Division = Strip(r.Division),
                              !.ProductName = Strip(r.ProductName),
                              !.OrderDate = ToDatetime(r.OrderDate),
                              !.ShipDate = ToDatetime(r.ShipDate)]
        d4 == [i \in 1..Len(d3) |-> Typed(d3[i])]
        d5 == SelectSeq(d4, NonNegativeProfit)
        d6 == SelectSeq(d5, ShipAfterOrder)
    IN [i \in 1..Len(d6) |->
          [OrderID |-> d6[i].OrderID, ProductID |-> d6[i].ProductID,
           Division |-> d6[i].Division, ProductName |-> d6[i].ProductName,
           OrderDate |-> d6[i].OrderDate, ShipDate |-> d6[i].ShipDate,
           Sales |-> d6[i].Sales, Units |-> d6[i].Units,
           GrossProfit |-> d6[i].GrossProfit, Cost |-> d6[i].Cost,
           CalculatedProfit |-> d6[i].Sales - d6[i].Cost,
           ProfitMismatch |-> d6[i].GrossProfit - (d6[i].Sales - d6[i].Cost),
           GrossMargin |-> Ratio(d6[i].GrossProfit, d6[i].Sales),
           ProfitPerUnit |-> Ratio(d6[i].GrossProfit, d6[i].Units),
           CostPerUnit |-> Ratio(d6[i].Cost, d6[i].Units),
           AvgSellingPrice |-> Ratio(d6[i].Sales, d6[i].Units),
           MarginOutlier |-> MarginOutlier(d6, i)]]

----------------------------------------------------------------------------
Init ==
    /\ csv \in InputTables
    /\ pc = "start"
    /\ cache = <<>>
    /\ df = <<>>
    /\ filtered_df = <<>>
    /\ product_perf = <<>>
    /\ total_sales = 0
    /\ total_profit = 0
    /\ division_contrib = <<>>
    /\ revenue_pareto = <<>>
    /\ profit_pareto = <<>>
    /\ revenue_80_count = NaN
    /\ profit_80_count = NaN
    /\ dependency_risk = ""
    /\ factory_perf = <<>>
    /\ page = ""
    /\ view = <<>>

(* df = load_data(), under @st.cache_data *)
LoadData ==
    /\ pc = "start"
    /\ LET out == IF cache = <<>> THEN load_data(csv) ELSE cache[1]
       IN /\ df' = out
          /\ cache' = <<out>>
    /\ pc' = "loaded"
    /\ UNCHANGED <<csv, filtered_df, product_perf, total_sales, total_profit,
                   division_contrib, revenue_pareto, profit_pareto,
                   revenue_80_count, profit_80_count, dependency_risk,
                   factory_perf, page, view>>

(* df["Factory"] = df["Product Name"].map(factory_map) *)
WithFactory(t) ==
    [i \in 1..Len(t) |->
        [OrderID |-> t[i].OrderID, ProductID |-> t[i].ProductID,
         Division |-> t[i].Division, ProductName |-> t[i].ProductName,
         OrderDate |-> t[i].OrderDate, ShipDate |-> t[i].ShipDate,
         Sales |-> t[i].Sales, Units |-> t[i].Units,
         GrossProfit |-> t[i].GrossProfit, Cost |-> t[i].Cost,
         CalculatedProfit |-> t[i].CalculatedProfit,
         ProfitMismatch |-> t[i].ProfitMismatch,
         GrossMargin |-> t[i].GrossMargin,
         ProfitPerUnit |-> t[i].ProfitPerUnit,
         CostPerUnit |-> t[i].CostPerUnit,
         AvgSellingPrice |-> t[i].AvgSellingPrice,
         MarginOutlier |-> t[i].MarginOutlier,
         Factory |-> MapFactoryValue(t[i].ProductName)]]

MapFactory ==
    /\ pc = "loaded"
    /\ df' = WithFactory(df)
    /\ pc' = "mapped"
    /\ UNCHANGED <<csv, cache, filtered_df, product_perf, total_sales,
                   total_profit, division_contrib, revenue_pareto,
                   profit_pareto, revenue_80_count, profit_80_count,
                   dependency_risk, factory_perf, page, view>>

----------------------------------------------------------------------------
(* SIDEBAR and FILTER DATA *)

(* the ranges the date_input can hold: pairs of order dates of df, first   *)
(* not after second; (NaT, NaT), the default, when df has no row           *)
DateRanges(t) ==
    IF Len(t) = 0 THEN {<<NaT, NaT>>}
    ELSE {dr \in ColumnSet(t, "OrderDate") \X ColumnSet(t, "OrderDate") :
            DateGE(dr[2], dr[1])}

(* the multiselect of products: nothing selected, or one product *)
ProductSearches(t) == {{}} \cup {{n} : n \in ColumnSet(t, "ProductName")}

(* positions of the slider(0, 100, 0) *)
MarginThresholds == {0, 60, 100}

FilterRows(t, division_filter, date_range, margin_threshold, product_search) ==
    LET Keep(r) ==
            /\ r.Division \in division_filter
            /\ DateGE(r.OrderDate, date_range[1])
            /\ DateGE(date_range[2], r.OrderDate)
            /\ RatioGE(<<r.GrossMargin[1] * 100, r.GrossMargin[2]>>, margin_threshold)
        Searched(r) == r.ProductName \in product_search
        f1 == SelectSeq(t, Keep)
    IN IF product_search # {} THEN SelectSeq(f1, Searched) ELSE f1

(* filtered_df["Month"] = filtered_df["Order Date"].dt.to_period("M") *)
WithMonth(t) ==
    [i \in 1..Len(t) |->
        [OrderID |-> t[i].OrderID, ProductID |-> t[i].ProductID,
         Division |-> t[i].Division, ProductName |-> t[i].ProductName,
         OrderDate |-> t[i].OrderDate, Sales |-> t[i].Sales,
         Units |-> t[i].Units, GrossProfit |-> t[i].GrossProfit,
         Cost |-> t[i].Cost, ProfitMismatch |-> t[i].ProfitMismatch,
         GrossMargin |-> t[i].GrossMargin,
         MarginOutlier |-> t[i].MarginOutlier,
         Factory |-> t[i].Factory,
         Month |-> <<t[i].OrderDate[1], t[i].OrderDate[2]>>]]

(* lines 189-203: the filter, then st.warning + st.stop() on an empty      *)
(* result                                                                  *)
FilterData ==
    /\ pc = "mapped"
    /\ \E division_filter \in SUBSET ColumnSet(df, "Division"),
          date_range \in DateRanges(df),
          product_search \in ProductSearches(df),
          margin_threshold \in MarginThresholds :
        LET f == FilterRows(df, division_filter, date_range,
                            margin_threshold, product_search)
        IN IF Len(f) = 0
           THEN /\ filtered_df' = <<>>
                /\ pc' = "stopped"
           ELSE /\ filtered_df' = WithMonth(f)
                /\ pc' = "filtered"
    /\ UNCHANGED <<csv, cache, df, product_perf, total_sales, total_profit,
                   division_contrib, revenue_pareto, profit_pareto,
                   revenue_80_count, profit_80_count, dependency_risk,
                   factory_perf, page, view>>

----------------------------------------------------------------------------
(* AGGREGATION *)

(* Python's order of the strings that occur as group keys *)
Collation ==
    <<" Nerds", "Candy X", "Chocolate", "Laffy Taffy", "Lot's O' Nuts", "NaN",
      "Nerds", "Other", "Secret Factory", "Sugar", "Sugar ", "Sugar Shack",
      "The Other Factory", "Wicked Choccy's", "Wonka Gum">>

StrRank(s) == CHOOSE i \in 1..Len(Collation) : Collation[i] = s

(* a < b for tuples of strings of one length *)
RECURSIVE KeyLess(_, _)
KeyLess(a, b) ==
    /\ a # <<>>
    /\ \/ StrRank(Head(a)) < StrRank(Head(b))
       \/ Head(a) = Head(b) /\ KeyLess(Tail(a), Tail(b))

(* the keys of a groupby in its result's order (sort=True) *)
RECURSIVE SortKeys(_)
SortKeys(K) ==
    IF K = {} THEN <<>>
    ELSE LET m == CHOOSE k \in K : \A o \in K \ {k} : KeyLess(k, o)
         IN <<m>> \o SortKeys(K \ {m})

(* groupby drops the rows that hold NaN in a key column (dropna=True) *)
GroupKeys(t) ==
    {<<t[i].Division, t[i].ProductName, t[i].Factory>> :
        i \in {j \in 1..Len(t) : t[j].Factory # NoFactory}}

(* lines 208-223 *)
ProductPerf(t) ==
    LET keys == SortKeys(GroupKeys(t))
        Group(k) ==
            LET In(r) == <<r.Division, r.ProductName, r.Factory>> = k
            IN SelectSeq(t, In)
        Agg(k) ==
            LET g == Group(k)
                s == SumSeq(ColumnSeq(g, "Sales"))
                p == SumSeq(ColumnSeq(g, "GrossProfit"))
                u == SumSeq(ColumnSeq(g, "Units"))
                c == SumSeq(ColumnSeq(g, "Cost"))
            IN [Division |-> k[1], ProductName |-> k[2], Factory |-> k[3],
                Total_Sales |-> s, Total_Profit |-> p, Total_Units |-> u,
                Total_Cost |-> c,
                Avg_Margin |-> Ratio(p, s),
                ProfitPerUnit |-> Ratio(p, u),
                CostPerUnit |-> Ratio(c, u),
                AvgSellingPrice |-> Ratio(s, u),
                RevenueContribution |-> NaN,
                ProfitContribution |-> NaN,
                MarginRiskFlag |-> ""]
    IN [i \in 1..Len(keys) |-> Agg(keys[i])]

(* lines 228-229: x / total * 100 *)
WithContribution(pp, ts, tp) ==
    [i \in 1..Len(pp) |->
        [pp[i] EXCEPT !.RevenueContribution = Ratio(pp[i].Total_Sales * 100, ts),
                      !.ProfitContribution = Ratio(pp[i].Total_Profit * 100, tp)]]

Aggregate ==
    /\ pc = "filtered"
    /\ LET pp == ProductPerf(filtered_df)
           ts == SumSeq(ColumnSeq(pp, "Total_Sales"))
           tp == SumSeq(ColumnSeq(pp, "Total_Profit"))
       IN /\ total_sales' = ts
          /\ total_profit' = tp
          /\ product_perf' = WithContribution(pp, ts, tp)
    /\ pc' = "aggregated"
    /\ UNCHANGED <<csv, cache, df, filtered_df, division_contrib,
                   revenue_pareto, profit_pareto, revenue_80_count,
                   profit_80_count, dependency_risk, factory_perf, page, view>>

(* lines 232-239 *)
DivisionContrib(pp, ts, tp) ==
    LET keys == SortKeys({<<pp[i].Division>> : i \in 1..Len(pp)})
        Agg(k) ==
            LET In(e) == e.Division = k[1]
                g == SelectSeq(pp, In)
                rev == SumSeq(ColumnSeq(g, "Total_Sales"))
                pro == SumSeq(ColumnSeq(g, "Total_Profit"))
            IN [Division |-> k[1], Revenue |-> rev, Profit |-> pro,
                RevenueContribution |-> Ratio(rev * 100, ts),
                ProfitContribution |-> Ratio(pro * 100, tp),
                TrueMargin |-> Ratio(pro, rev)]
    IN [i \in 1..Len(keys) |-> Agg(keys[i])]

DivisionContribution ==
    /\ pc = "aggregated"
    /\ division_contrib' = DivisionContrib(product_perf, total_sales, total_profit)
    /\ pc' = "division"
    /\ UNCHANGED <<csv, cache, df, filtered_df, product_perf, total_sales,
                   total_profit, revenue_pareto, profit_pareto,
                   revenue_80_count, profit_80_count, dependency_risk,
                   factory_perf, page, view>>

----------------------------------------------------------------------------
(* Revenue Pareto and Dependency Risk *)

(* sort_values(ascending=False) on a list of numbers: the positions in     *)
(* descending order of value, equal values in their original order         *)
RECURSIVE SortDescending(_, _)
SortDescending(v, left) ==
    IF left = {} THEN <<>>
    ELSE LET m == CHOOSE i \in left :
                    \A j \in left \ {i} : v[i] > v[j] \/ (v[i] = v[j] /\ i < j)
         IN <<m>> \o SortDescending(v, left \ {m})

(* the column itself in place of its running total *)
CumSum_NotAccumulated(s) == s

RECURSIVE CumSum(_)
CumSum(s) ==
    IF s = <<>> THEN <<>>
    ELSE LET c == CumSum(SubSeq(s, 1, Len(s) - 1))
         IN Append(c, (IF c = <<>> THEN 0 ELSE c[Len(c)]) + s[Len(s)])

(* the sorted frame: each row keeps its index label of product_perf        *)
(* (0-based) and gets cumsum / total * 100                                 *)
Pareto(pp, metric, total) ==
    LET v == ColumnSeq(pp, metric)
        order == SortDescending(v, 1..Len(pp))
        cum == CumSum([k \in 1..Len(order) |-> v[order[k]]])
    IN [k \in 1..Len(order) |->
          [index |-> order[k] - 1,
           ProductName |-> pp[order[k]].ProductName,
           Total |-> v[order[k]],
           Cumulative |-> Ratio(cum[k] * 100, total)]]

ParetoThreshold == 80

(* frame[frame["Cumulative ... %"] >= 80].index.min() + 1; the min of an   *)
(* empty index is NaN                                                      *)
Count80(frame) ==
    LET hit == {frame[k].index : k \in {j \in 1..Len(frame) :
                    RatioGE(frame[j].Cumulative, ParetoThreshold)}}
    IN IF hit = {} THEN NaN
       ELSE Num((CHOOSE i \in hit : \A j \in hit : i <= j) + 1)

HighRiskMax == 3

ModerateRiskMax == 5

(* a comparison with NaN is False, so a NaN count falls through to "Low" *)
DependencyRisk(count) ==
    IF ~count.nan /\ count.val <= HighRiskMax THEN "High"
    ELSE IF ~count.nan /\ count.val <= ModerateRiskMax THEN "Moderate"
    ELSE "Low"

ParetoAnalysis ==
    /\ pc = "division"
    /\ LET rp == Pareto(product_perf, "Total_Sales", total_sales)
           ppo == Pareto(product_perf, "Total_Profit", total_profit)
       IN /\ revenue_pareto' = rp
          /\ profit_pareto' = ppo
          /\ revenue_80_count' = Count80(rp)
          /\ profit_80_count' = Count80(ppo)
          /\ dependency_risk' = DependencyRisk(Count80(ppo))
    /\ pc' = "pareto"
    /\ UNCHANGED <<csv, cache, df, filtered_df, product_perf, total_sales,
                   total_profit, division_contrib, factory_perf, page, view>>

----------------------------------------------------------------------------
(* Automated Margin Risk Flag *)

(* the ratios of s in ascending order *)
RECURSIVE SortRatios(_, _)
SortRatios(s, left) ==
    IF left = {} THEN <<>>
    ELSE LET m == CHOOSE i \in left :
                    \A j \in left \ {i} :
                        RatioLT(s[i], s[j]) \/ (RatioEQ(s[i], s[j]) /\ i < j)
         IN <<s[m]>> \o SortRatios(s, left \ {m})

(* Series.median(): the middle value, or the mean of the two middle ones;  *)
(* s is not empty                                                          *)
Median(s) ==
    LET o == SortRatios(s, 1..Len(s))
        n == Len(s)
    IN IF n % 2 = 1 THEN o[(n + 1) \div 2]
       ELSE LET a == o[n \div 2]
                b == o[n \div 2 + 1]
            IN Ratio(a[1] * b[2] + b[1] * a[2], 2 * a[2] * b[2])

(* <= in place of < *)
BelowMedian_NonStrict(m, med) == ~RatioLT(med, m)

BelowMedian(m, med) == RatioLT(m, med)

(* np.where(Avg_Margin < Avg_Margin.median(), "Risk", "Healthy") *)
MarginRiskFlagged(pp) ==
    IF Len(pp) = 0 THEN pp
    ELSE LET med == Median(ColumnSeq(pp, "Avg_Margin"))
         IN [i \in 1..Len(pp) |->
               [pp[i] EXCEPT !.MarginRiskFlag =
                   IF BelowMedian(pp[i].Avg_Margin, med) THEN "Risk"
                   ELSE "Healthy"]]

MarginRiskFlag ==
    /\ pc = "pareto"
    /\ product_perf' = MarginRiskFlagged(product_perf)
    /\ pc' = "flagged"
    /\ UNCHANGED <<csv, cache, df, filtered_df, total_sales, total_profit,
                   division_contrib, revenue_pareto, profit_pareto,
                   revenue_80_count, profit_80_count, dependency_risk,
                   factory_perf, page, view>>

----------------------------------------------------------------------------
(* Factory Performance *)

(* the mean of a column of ratios: sum(n_i / d_i) / len *)
MeanRatio(s) ==
    LET dens == [i \in 1..Len(s) |-> s[i][2]]
        D == ProdSeq(dens)
    IN Ratio(SumSeq([i \in 1..Len(s) |-> s[i][1] * (D \div s[i][2])]),
             Len(s) * D)

(* lines 273-278 *)
FactoryPerf(pp) ==
    LET keys == SortKeys({<<pp[i].Factory>> : i \in 1..Len(pp)})
        Agg(k) ==
            LET In(e) == e.Factory = k[1]
                g == SelectSeq(pp, In)
            IN [Factory |-> k[1],
                Revenue |-> SumSeq(ColumnSeq(g, "Total_Sales")),
                Profit |-> SumSeq(ColumnSeq(g, "Total_Profit")),
                Avg_Margin |-> MeanRatio(ColumnSeq(g, "Avg_Margin")),
                Cost_per_Unit |-> MeanRatio(ColumnSeq(g, "CostPerUnit"))]
    IN [i \in 1..Len(keys) |-> Agg(keys[i])]

FactoryPerformance ==
    /\ pc = "flagged"
    /\ factory_perf' = FactoryPerf(product_perf)
    /\ pc' = "factory"
    /\ UNCHANGED <<csv, cache, df, filtered_df, product_perf, total_sales,
                   total_profit, division_contrib, revenue_pareto,
                   profit_pareto, revenue_80_count, profit_80_count,
                   dependency_risk, page, view>>

----------------------------------------------------------------------------
(* PAGES and ROUTING: the radio's module decides the one page function     *)
(* that runs                                                               *)

UNCHANGED_tables ==
    UNCHANGED <<csv, cache, df, filtered_df, product_perf, total_sales,
                total_profit, division_contrib, revenue_pareto, profit_pareto,
                revenue_80_count, profit_80_count, dependency_risk,
                factory_perf>>

(* an order of the months: <<year, month>> *)
RECURSIVE SortMonths(_)
SortMonths(M) ==
    IF M = {} THEN <<>>
    ELSE LET m == CHOOSE a \in M : \A b \in M \ {a} :
                    a[1] < b[1] \/ (a[1] = b[1] /\ a[2] < b[2])
         IN <<m>> \o SortMonths(M \ {m})

(* monthly of executive_page, lines 291-296 *)
Monthly(t) ==
    LET months == SortMonths({t[i].Month : i \in 1..Len(t)})
        Agg(m) ==
            LET In(r) == r.Month = m
                g == SelectSeq(t, In)
                rev == SumSeq(ColumnSeq(g, "Sales"))
                pro == SumSeq(ColumnSeq(g, "GrossProfit"))
            IN [Month |-> m, Revenue |-> rev, Profit |-> pro,
                Margin |-> Ratio(pro, rev)]
    IN [i \in 1..Len(months) |-> Agg(months[i])]

TopN == 10

executive_page ==
    /\ pc = "factory"
    /\ page' = "Executive Intelligence"
    /\ view' = [total_revenue |-> total_sales,
                total_profit |-> total_profit,
                true_average_margin |-> Ratio(total_profit * 100, total_sales),
                monthly |-> Monthly(filtered_df),
                top10 |-> LET o == Pareto(product_perf, "Total_Profit", total_profit)
                          IN SubSeq(o, 1, IF Len(o) < TopN THEN Len(o) ELSE TopN)]
    /\ pc' = "done"
    /\ UNCHANGED_tables

product_portfolio_page ==
    /\ pc = "factory"
    /\ page' = "Product Portfolio Analysis"
    /\ view' = [scatter |-> product_perf]
    /\ pc' = "done"
    /\ UNCHANGED_tables

division_page ==
    /\ pc = "factory"
    /\ page' = "Division & Factory Performance"
    /\ view' = [table |-> division_contrib]
    /\ pc' = "done"
    /\ UNCHANGED_tables

cost_margin_page ==
    /\ pc = "factory"
    /\ page' = "Cost & Margin Diagnostics"
    /\ view' = [scatter |-> filtered_df]
    /\ pc' = "done"
    /\ UNCHANGED_tables

pareto_page ==
    /\ pc = "factory"
    /\ page' = "Profit Concentration Analysis"
    /\ view' = [curve |-> profit_pareto,
                profit_info |-> profit_80_count,
                revenue_info |-> revenue_80_count,
                warning |-> dependency_risk]
    /\ pc' = "done"
    /\ UNCHANGED_tables

factory_map_page ==
    /\ pc = "factory"
    /\ page' = "Factory-Product Map"
    /\ view' = [map_data |->
                  [i \in 1..Len(factory_perf) |->
                     [Factory |-> factory_perf[i].Factory,
                      Revenue |-> factory_perf[i].Revenue,
                      Avg_Margin |-> factory_perf[i].Avg_Margin,
                      Latitude |-> factory_coords[factory_perf[i].Factory][1],
                      Longitude |-> factory_coords[factory_perf[i].Factory][2]]]]
    /\ pc' = "done"
    /\ UNCHANGED_tables

IsRisk(e) == e.MarginRiskFlag = "Risk"

recommendation_page ==
    /\ pc = "factory"
    /\ page' = "Strategic Recommendations"
    /\ view' = [table |-> SelectSeq(product_perf, IsRisk)]
    /\ pc' = "done"
    /\ UNCHANGED_tables

(* a widget change re-runs the script from its first line; only the        *)
(* st.cache_data entry outlives the run                                    *)
Rerun ==
    /\ pc \in {"done", "stopped"}
    /\ pc' = "start"
    /\ df' = <<>>
    /\ filtered_df' = <<>>
    /\ product_perf' = <<>>
    /\ total_sales' = 0
    /\ total_profit' = 0
    /\ division_contrib' = <<>>
    /\ revenue_pareto' = <<>>
    /\ profit_pareto' = <<>>
    /\ revenue_80_count' = NaN
    /\ profit_80_count' = NaN
    /\ dependency_risk' = ""
    /\ factory_perf' = <<>>
    /\ page' = ""
    /\ view' = <<>>
    /\ UNCHANGED <<csv, cache>>

Next ==
    \/ LoadData
    \/ MapFactory
    \/ FilterData
    \/ Aggregate
    \/ DivisionContribution
    \/ ParetoAnalysis
    \/ MarginRiskFlag
    \/ FactoryPerformance
    \/ executive_page
    \/ product_portfolio_page
    \/ division_page
    \/ cost_margin_page
    \/ pareto_page
    \/ factory_map_page
    \/ recommendation_page
    \/ Rerun

Spec == Init /\ [][Next]_vars

----------------------------------------------------------------------------
(* Positions of a run *)

Mapped == {"mapped", "stopped", "filtered", "aggregated", "division",
           "pareto", "flagged", "factory", "done"}

Aggregated == {"aggregated", "division", "pareto", "flagged", "factory", "done"}

ParetoDone == {"pareto", "flagged", "factory", "done"}

Flagged == {"flagged", "factory", "done"}

(* the records of filtered_df that the groupby of product_perf aggregates *)
AggregatedRecords == {i \in 1..Len(filtered_df) : filtered_df[i].Factory # NoFactory}

(* the sum of column f of t over the rows I *)
SumOver(I, t, f) == SumSeq([i \in 1..Len(t) |-> IF i \in I THEN t[i][f] ELSE 0])

----------------------------------------------------------------------------
PrefixSum(frame, n) == SumSeq([k \in 1..n |-> frame[k].Total])

IsMinimalPrefix(count, frame, total) ==
    /\ ~count.nan
    /\ count.val \in 1..Len(frame)
    /\ PrefixSum(frame, count.val) * 100 >= ParetoThreshold * total
    /\ \A m \in 1..(count.val - 1) :
          PrefixSum(frame, m) * 100 < ParetoThreshold * total

(* C1: when the grand total is positive, revenue_80_count and              *)
(* profit_80_count are the smallest prefix length N of the table sorted    *)
(* descending by the metric whose cumulative share is >= 80%.              *)
C1_CountIsMinimalPrefix ==
    pc \in ParetoDone =>
        /\ total_sales > 0 => IsMinimalPrefix(revenue_80_count, revenue_pareto, total_sales)
        /\ total_profit > 0 => IsMinimalPrefix(profit_80_count, profit_pareto, total_profit)

----------------------------------------------------------------------------
(* C2: a cleaned record whose Product Name is no key of factory_map has    *)
(* the Factory "Unknown" and still contributes to a row of product_perf.   *)

C2_UnmappedIsUnknownAndKept ==
    /\ pc \in Mapped =>
          \A i \in 1..Len(df) :
              df[i].ProductName \notin DOMAIN factory_map => df[i].Factory = "Unknown"
    /\ pc \in Aggregated =>
          \A i \in 1..Len(filtered_df) :
              \E k \in 1..Len(product_perf) :
                  /\ product_perf[k].Division = filtered_df[i].Division
                  /\ product_perf[k].ProductName = filtered_df[i].ProductName

----------------------------------------------------------------------------
(* C3: conservation: total_profit, the sum of Total_Profit over            *)
(* product_perf, is the sum of Gross Profit over filtered_df, and          *)
(* total_sales is the sum of Sales over filtered_df.                       *)

C3_Conservation ==
    pc \in Aggregated =>
        /\ total_profit = SumSeq(ColumnSeq(filtered_df, "GrossProfit"))
        /\ total_sales = SumSeq(ColumnSeq(filtered_df, "Sales"))
        /\ total_profit = SumSeq(ColumnSeq(product_perf, "Total_Profit"))

----------------------------------------------------------------------------
IsRatioOfSums(figure, I) ==
    RatioEQ(figure, <<SumOver(I, filtered_df, "GrossProfit"),
                      SumOver(I, filtered_df, "Sales")>>)

(* C4: every aggregate margin figure is (sum of Gross Profit) / (sum of    *)
(* Sales) over the records of its group: product_perf Avg_Margin,          *)
(* division_contrib True Margin, factory_perf Avg_Margin, the executive    *)
(* overall margin and the monthly Margin %.  The group of a figure built   *)
(* from product_perf is taken among the records product_perf aggregates.   *)
C4_MarginIsRatioOfSums ==
    /\ pc \in Aggregated =>
          \A k \in 1..Len(product_perf) :
              IsRatioOfSums(product_perf[k].Avg_Margin,
                  {i \in AggregatedRecords :
                      /\ filtered_df[i].Division = product_perf[k].Division
                      /\ filtered_df[i].ProductName = product_perf[k].ProductName
                      /\ filtered_df[i].Factory = product_perf[k].Factory})
    /\ pc \in {"division", "pareto", "flagged", "factory", "done"} =>
          \A k \in 1..Len(division_contrib) :
              IsRatioOfSums(division_contrib[k].TrueMargin,
                  {i \in AggregatedRecords :
                      filtered_df[i].Division = division_contrib[k].Division})
    /\ pc \in {"factory", "done"} =>
          \A k \in 1..Len(factory_perf) :
              IsRatioOfSums(factory_perf[k].Avg_Margin,
                  {i \in AggregatedRecords :
                      filtered_df[i].Factory = factory_perf[k].Factory})
    /\ (pc = "done" /\ page = "Executive Intelligence") =>
          /\ total_sales > 0 =>
                IsRatioOfSums(<<view.true_average_margin[1],
                                view.true_average_margin[2] * 100>>,
                              AggregatedRecords)
          /\ \A k \in 1..Len(view.monthly) :
                IsRatioOfSums(view.monthly[k].Margin,
                    {i \in 1..Len(filtered_df) :
                        filtered_df[i].Month = view.monthly[k].Month})

----------------------------------------------------------------------------
Quadrant(e, pp) ==
    <<~RatioLT(Ratio(e.Total_Profit, 1),
               Median([i \in 1..Len(pp) |-> Ratio(pp[i].Total_Profit, 1)])),
      ~RatioLT(e.Avg_Margin, Median(ColumnSeq(pp, "Avg_Margin")))>>

KthSmallestMargin(pp, k) ==
    LET v == CHOOSE i \in 1..Len(pp) :
                /\ Cardinality({j \in 1..Len(pp) :
                        RatioLT(pp[j].Avg_Margin, pp[i].Avg_Margin)}) < k
                /\ Cardinality({j \in 1..Len(pp) :
                        ~RatioLT(pp[i].Avg_Margin, pp[j].Avg_Margin)}) >= k
    IN pp[v].Avg_Margin

(* m is below the median of the margins of pp: 2 m < lo + hi for the two   *)
(* middle margins (the same one when pp has an odd number of rows)         *)
UnderMedianMargin(m, pp) ==
    LET n == Len(pp)
        lo == KthSmallestMargin(pp, (n + 1) \div 2)
        hi == KthSmallestMargin(pp, (n \div 2) + 1)
    IN 2 * m[1] * lo[2] * hi[2] < m[2] * (lo[1] * hi[2] + hi[1] * lo[2])

----------------------------------------------------------------------------
(* C6: when the grand total of the profit metric is 0, or product_perf is  *)
(* empty, the analysis divides nothing by the zero total and produces      *)
(* neither an 80% count nor a dependency-risk level.                       *)

C6_ZeroTotalNotComputable ==
    (pc \in ParetoDone /\ (total_profit = 0 \/ Len(product_perf) = 0)) =>
        /\ \A k \in 1..Len(product_perf) : product_perf[k].ProfitContribution[2] # 0
        /\ \A k \in 1..Len(profit_pareto) : profit_pareto[k].Cumulative[2] # 0
        /\ profit_80_count.nan
        /\ dependency_risk \notin {"High", "Moderate", "Low"}

----------------------------------------------------------------------------
(* C7: filters that exclude every record end the run in the "no data"      *)
(* state before anything is aggregated; and once the aggregation has run,  *)
(* product_perf has a row and total_sales > 0.                             *)

C7_NoDataOrNonEmptyAggregate ==
    /\ (pc \in Mapped \ {"mapped"} /\ Len(filtered_df) = 0) =>
          /\ pc = "stopped"
          /\ product_perf = <<>> /\ revenue_pareto = <<>> /\ profit_pareto = <<>>
    /\ pc \in Aggregated =>
          /\ Len(product_perf) >= 1
          /\ total_sales > 0

----------------------------------------------------------------------------
(* the records load_data is held to keep *)

ValidRow(r) == PositiveSalesUnits(r) /\ NoMissing(r)

FirstOfPair(t, i) ==
    \A j \in 1..(i - 1) :
        ~(t[j].OrderID = t[i].OrderID /\ t[j].ProductID = t[i].ProductID)

HasMismatch(r) == r.GrossProfit # r.Sales - r.Cost

(* row r of the csv is in the output with its discrepancy exposed *)
RetainedAnnotated(r, out) ==
    \E k \in 1..Len(out) :
        /\ out[k].OrderID = r.OrderID /\ out[k].ProductID = r.ProductID
        /\ out[k].Sales = r.Sales /\ out[k].GrossProfit = r.GrossProfit
        /\ out[k].Cost = r.Cost
        /\ out[k].ProfitMismatch = r.GrossProfit - (r.Sales - r.Cost)
        /\ out[k].MarginOutlier \in BOOLEAN

(* C8, as claimed: a valid record whose Gross Profit differs from          *)
(* Sales - Cost is retained in the output of load_data with the            *)
(* discrepancy exposed (a later duplicate of a pair aside).                *)
C8_AnomalousRecordRetained ==
    pc = "loaded" =>
        \A i \in 1..Len(csv) :
            (ValidRow(csv[i]) /\ FirstOfPair(csv, i) /\ HasMismatch(csv[i]))
                => RetainedAnnotated(csv[i], df)

KeptByCleaner(t, i) ==
    /\ ValidRow(t[i]) /\ FirstOfPair(t, i)
    /\ t[i].GrossProfit >= 0
    /\ DateGE(ToDatetime(t[i].ShipDate), ToDatetime(t[i].OrderDate))

(* C8, amended: a valid record that is the first row of its (Order ID,     *)
(* Product ID) pair, whose Gross Profit is not negative and whose Ship     *)
(* Date parses and is not before its parsed Order Date, is retained in the *)
(* output of load_data with Profit Mismatch = Gross Profit - (Sales -      *)
(* Cost) and the Margin Outlier flag as annotations, whether or not it     *)
(* shows a profit mismatch or is a margin outlier; and the output holds    *)
(* no other record.                                                        *)
C8_AnomalyNeverRemoves ==
    pc = "loaded" =>
        /\ \A i \in 1..Len(csv) : KeptByCleaner(csv, i) => RetainedAnnotated(csv[i], df)
        /\ Len(df) = Cardinality({i \in 1..Len(csv) : KeptByCleaner(csv, i)})

C8_Witness ==
    /\ pc = "loaded"
    /\ \E k \in 1..Len(df) : df[k].ProfitMismatch # 0 /\ df[k].MarginOutlier
    /\ Len(df) = Len(csv)

----------------------------------------------------------------------------
MonotoneTo100(frame, total) ==
    /\ \A k \in 1..(Len(frame) - 1) :
          ~RatioLT(frame[k + 1].Cumulative, frame[k].Cumulative)
    /\ Len(frame) >= 1
    /\ RatioEQ(frame[Len(frame)].Cumulative, Ratio(100, 1))

(* C9: with a positive grand total, the cumulative share of the entities   *)
(* sorted descending by the metric never decreases from one entity to the  *)
(* next and ends at 100%, for profit and for revenue.                      *)
C9_CurveMonotoneTo100 ==
    pc \in ParetoDone =>
        /\ total_profit > 0 => MonotoneTo100(profit_pareto, total_profit)
        /\ total_sales > 0 => MonotoneTo100(revenue_pareto, total_sales)

C9_Witness ==
    /\ pc = "pareto"
    /\ total_profit > 0
    /\ Len(profit_pareto) = 3
    /\ RatioLT(profit_pareto[1].Cumulative, profit_pareto[2].Cumulative)
    /\ RatioLT(profit_pareto[2].Cumulative, profit_pareto[3].Cumulative)

----------------------------------------------------------------------------
PassesRowFilters(r) ==
    /\ ValidRow(r)
    /\ r.GrossProfit >= 0
    /\ DateGE(ToDatetime(r.ShipDate), ToDatetime(r.OrderDate))

SamePair(a, b) == a.OrderID = b.OrderID /\ a.ProductID = b.ProductID

(* C10: every (Order ID, Product ID) pair that has a valid record in the   *)
(* csv is represented by exactly one record of the output of load_data,    *)
(* whatever the order of its rows.  Stated for the pairs whose valid rows  *)
(* all pass the two row filters the claim does not name (Gross Profit >=   *)
(* 0, Ship Date >= Order Date), so that only validity and row order        *)
(* decide.                                                                 *)
C10_ValidPairRepresentedOnce ==
    pc = "loaded" =>
        \A i \in 1..Len(csv) :
            (/\ ValidRow(csv[i])
             /\ \A j \in 1..Len(csv) :
                    (SamePair(csv[j], csv[i]) /\ ValidRow(csv[j]))
                        => PassesRowFilters(csv[j]))
                => Cardinality({k \in 1..Len(df) : SamePair(df[k], csv[i])}) = 1

====
